---- MODULE Spec2Model ----
(***************************************************************************)
(* A model of nbgitpuller-downloader-plugins: the archive-to-git staging   *)
(* pipeline of plugin_helper.py (HandleFilesHelper), the line-streaming    *)
(* process runner execute_cmd, the local-origin path derivation and the    *)
(* archive-format detection of the provider plugins.                       *)
(*                                                                         *)
(* Text (urls, file names, extensions, process output) is modelled as      *)
(* sequences of one-character strings, so that the string operations of    *)
(* the code (translate, split, "in", startswith) are computed, not assumed.*)
(***************************************************************************)
EXTENDS Integers, Sequences, FiniteSets, TLC

VARIABLES
    gp,      \* git_puller_ref of the pipeline runs: git_url, content_provider
    hfh,     \* per process: the HandleFilesHelper object and the position of its generator
    tmp,     \* per process: the staging directory (self.temp_download_dir) on disk
    origin,  \* the local origin repository (self.local_origin_repo) on disk
    nruns,   \* number of pipeline invocations started so far
    ex,      \* one call of execute_cmd on a process output stream
    idq,     \* two descriptors whose local origin paths are compared
    fd,      \* one archive-format detection of a provider plugin
    dl       \* the http requests of one invocation of a provider plugin

vars == <<gp, hfh, tmp, origin, nruns, ex, idq, fd, dl>>
pvars == <<gp, hfh, tmp, origin, nruns>>

----------------------------------------------------------------------------
(* Bounds of the model *)

\* pipeline invocations in one behaviour
MaxRuns == 2
\* process slots; the sequential specification uses slot 1 only
NProcs == 2

Procs == 1..NProcs

----------------------------------------------------------------------------
(* Text helpers *)

\* Python: pat in s
Contains(pat, s) ==
    \E i \in 1..(Len(s) - Len(pat) + 1) : SubSeq(s, i, i + Len(pat) - 1) = pat

\* Python: s.startswith(pat)
StartsWith(pat, s) ==
    Len(s) >= Len(pat) /\ SubSeq(s, 1, Len(pat)) = pat

\* positions of s holding a character of set cs
Positions(s, cs) == {i \in 1..Len(s) : s[i] \in cs}

Min(S) == CHOOSE x \in S : \A y \in S : x <= y
Max(S) == CHOOSE x \in S : \A y \in S : x >= y

\* the part of s before the first character of cs (all of s if there is none)
Before(s, cs) ==
    IF Positions(s, cs) = {} THEN s ELSE SubSeq(s, 1, Min(Positions(s, cs)) - 1)

\* the part of s from the first character of cs on (empty if there is none)
From(s, cs) ==
    IF Positions(s, cs) = {} THEN <<>> ELSE SubSeq(s, Min(Positions(s, cs)), Len(s))

\* Python: s.split(".")[-1]
LastDotPart(s) ==
    IF Positions(s, {"."}) = {} THEN s ELSE SubSeq(s, Max(Positions(s, {"."})) + 1, Len(s))

\* Python: len(s.split("."))
DotParts(s) == Cardinality(Positions(s, {"."})) + 1

RECURSIVE Strip(_, _)
\* Python: s.translate(str.maketrans('', '', cs)) : s without the characters of cs
Strip(s, cs) ==
    IF s = <<>> THEN <<>>
    ELSE IF Head(s) \in cs THEN Strip(Tail(s), cs)
    ELSE <<Head(s)>> \o Strip(Tail(s), cs)

\* string.punctuation (without the backquote, which a TLA+ string cannot hold and
\* no url of the model contains)
Punctuation ==
    {"!", "\"", "#", "$", "%", "&", "'", "(", ")", "*", "+", ",", "-", ".", "/",
     ":", ";", "<", "=", ">", "?", "@", "[", "\\", "]", "^", "_", "{", "|",
     "}", "~"}

Zip == <<"z", "i", "p">>
Tgz == <<"t", "g", "z">>
\* the absent value of an optional text (an extension, a header, a name)
NoText == <<>>

----------------------------------------------------------------------------
(* Local origin path: HandleFilesHelper.__init__, lines 186-190 *)

CACHED_ORIGIN_NON_GIT_REPO ==
    <<".", "n", "b", "g", "i", "t", "p", "u", "l", "l", "e", "r", "/",
      "t", "a", "r", "g", "e", "t", "s", "/">>

\* git_url.translate(str.maketrans('', '', string.punctuation))
SourceOriginPathPart(git_url) == Strip(git_url, Punctuation)

\* f"{repo_parent_dir}{CACHED_ORIGIN_NON_GIT_REPO}{content_provider}/{source_origin_path_part}/"
LocalOriginRepo(repo_parent_dir, content_provider, git_url) ==
    repo_parent_dir \o CACHED_ORIGIN_NON_GIT_REPO \o content_provider
        \o <<"/">> \o SourceOriginPathPart(git_url) \o <<"/">>

----------------------------------------------------------------------------
(* Extension from the url: extract_file_extension, lines 91-102 *)

\* urlparse(url): what follows "scheme:"
AfterScheme(url) ==
    IF Positions(url, {":"}) = {} THEN url
    ELSE SubSeq(url, Min(Positions(url, {":"})) + 1, Len(url))

\* urlparse(url): what follows "//netloc"
AfterNetloc(rest) ==
    IF StartsWith(<<"/", "/">>, rest)
    THEN From(SubSeq(rest, 3, Len(rest)), {"/", "?", "#"})
    ELSE rest

\* urlparse(url).path
UrlPath(url) == Before(AfterNetloc(AfterScheme(url)), {"?", "#"})

\* whether extract_file_extension(url) returns (TRUE) or raises (FALSE)
HasFileExtension(url) == DotParts(UrlPath(url)) >= 2

\* url_arr[-1]
ExtractFileExtension(url) == LastDotPart(UrlPath(url))

----------------------------------------------------------------------------
(* Files and archives of the pipeline runs *)

\* the version-control metadata entry a clone creates in the staging directory
GitDir == <<".", "g", "i", "t">>
\* the macOS resource-fork directory some archives carry
Macosx == <<"_", "_", "M", "A", "C", "O", "S", "X">>
MyProject == <<"M", "y", "P", "r", "o", "j", "e", "c", "t">>
Notes == <<"n", "o", "t", "e", "s">>
\* "me.github.io", a top-level directory whose name contains ".git"
Pages == <<"m", "e", ".", "g", "i", "t", "h", "u", "b", ".", "i", "o">>

\* the top-level entries an archive may hold
Payloads == {{MyProject}, {MyProject, Macosx}, {Notes}, {Pages}, {Macosx}}

\* what the source serves: an archive of some format, or a page that is no archive
Served ==
    {[fmt |-> "zip", entries |-> e] : e \in Payloads}
        \cup {[fmt |-> "tgz", entries |-> {MyProject}], [fmt |-> "html", entries |-> {}]}

NoArchive == [fmt |-> "none", entries |-> {}]

\* the "extension" key of other_kw_args (NoText: the key is absent)
Overrides == {NoText, Zip, Tgz}

\* "h://a/b.zip" and "h://a/b"
UrlWithSuffix == <<"h", ":", "/", "/", "a", "/", "b", ".", "z", "i", "p">>
UrlNoSuffix == <<"h", ":", "/", "/", "a", "/", "b">>
PipelineUrls == {UrlWithSuffix, UrlNoSuffix}

Web == <<"w", "e", "b">>
ParentDir == <<"/", "u", "/">>

\* f"{self.temp_download_dir.name}/download.{self.ext}", as an entry of the staging directory
DownloadName(ext) == <<"d", "o", "w", "n", "l", "o", "a", "d", ".">> \o ext

----------------------------------------------------------------------------
(* Values of a pipeline run *)

NoExc == [kind |-> "None", cause |-> "None"]
NoResult == [source_dir_name |-> NoText, local_origin_repo_path |-> NoText]

\* a HandleFilesHelper not yet constructed. Besides the object's fields and the
\* generator's position (pc, cmd, ret, exc) it keeps the history of the run: the
\* events yielded, the processes run with their exit codes, the kind of the
\* exception a stage raised, and the terminal outcome handed to the caller
FreshHelper ==
    [pc |-> "idle", cmd |-> "none", ret |-> 0, ext |-> NoText,
     local_origin_repo |-> NoText, events |-> <<>>, procs |-> <<>>,
     exc |-> NoExc, raised |-> "None",
     unzipped_dirs |-> {}, dir_names |-> {}, first |-> NoText,
     result |-> NoResult, error |-> NoExc]

\* a staging directory that does not exist
NoTmp ==
    [exists |-> FALSE, entries |-> {}, archive |-> NoArchive, cloned |-> FALSE,
     base |-> 0, staged |-> {}, committed |-> FALSE, commit_files |-> {}]

\* the local origin path before any run
NoOrigin == [exists |-> FALSE, repo |-> FALSE, commits |-> 0, head |-> {}, inits |-> 0]

Cmds == {"git_init", "git_clone", "unarchive", "git_add", "git_commit", "git_push"}

\* execute_cmd line 23: the echo of the command line
EchoOf(cmd) ==
    CASE cmd = "git_init" -> "$ git init --bare --initial-branch=main"
      [] cmd = "git_clone" -> "$ git clone file://origin tmp"
      [] cmd = "unarchive" -> "$ unzip|tar"
      [] cmd = "git_add" -> "$ git add ."
      [] cmd = "git_commit" -> "$ git commit -q -m test --allow-empty"
      [] OTHER -> "$ git push origin main"

\* the lines a process prints: the quiet commands print nothing when they succeed
OutputOf(cmd, ret) ==
    IF ret = 0 /\ cmd \in {"unarchive", "git_add", "git_commit"} THEN <<>> ELSE <<"out">>

\* line 245: the filter on the listing of the staging directory
JunkFilter(unzipped_dirs) ==
    {dir_name \in unzipped_dirs :
        ~Contains(GitDir, dir_name) /\ ~Contains(Macosx, dir_name)}

\* execute_unarchive lines 113-116: the tool chosen for an extension
ToolFor(ext) == IF ext = Zip THEN "unzip" ELSE "tar"

\* the tool that can unpack a served format
ToolOf(fmt) == CASE fmt = "zip" -> "unzip" [] fmt = "tgz" -> "tar" [] OTHER -> "none"

\* a wrapper that keeps no trace of the original error
WrapErrorDropsCause(exc) == [kind |-> "ValueError", cause |-> "None"]

\* lines 251-253: raise ValueError(ex)
WrapError(exc) == [kind |-> "ValueError", cause |-> exc.kind]

\* line 255: self.temp_download_dir.cleanup()
Cleanup(t) == NoTmp

----------------------------------------------------------------------------
(* The external processes the pipeline runs through execute_cmd *)

\* whether the command can exit 0 in the state it finds
CanSucceed(cmd, h, t, o) ==
    CASE cmd = "git_init" -> o.exists
      [] cmd = "git_clone" -> o.repo /\ t.exists
      [] cmd = "unarchive" ->
            /\ DownloadName(h.ext) \in t.entries
            /\ ToolFor(h.ext) = ToolOf(t.archive.fmt)
      [] cmd = "git_add" -> t.cloned
      [] cmd = "git_commit" -> t.cloned
      [] OTHER -> t.committed /\ o.repo /\ o.commits = t.base

\* the exit codes the command may end with: any command may fail
ExitCodes(cmd, h, t, o) == IF CanSucceed(cmd, h, t, o) THEN {0, 1} ELSE {1}

\* a clone that checks out none of the origin's files
TmpAfterEmptyClone(cmd, ret, t, o) ==
    IF ret # 0 THEN t
    ELSE CASE cmd = "git_clone" ->
                [t EXCEPT !.entries = {GitDir}, !.cloned = TRUE, !.base = o.commits]
           [] cmd = "unarchive" -> [t EXCEPT !.entries = @ \cup t.archive.entries]
           [] cmd = "git_add" -> [t EXCEPT !.staged = t.entries \ {GitDir}]
           [] cmd = "git_commit" ->
                [t EXCEPT !.committed = TRUE, !.commit_files = t.staged]
           [] OTHER -> t

\* the staging directory after the command ran
TmpAfter(cmd, ret, t, o) ==
    IF ret # 0 THEN t
    ELSE CASE cmd = "git_clone" ->
                [t EXCEPT !.entries = {GitDir} \cup o.head, !.cloned = TRUE,
                          !.base = o.commits]
           [] cmd = "unarchive" -> [t EXCEPT !.entries = @ \cup t.archive.entries]
           [] cmd = "git_add" -> [t EXCEPT !.staged = t.entries \ {GitDir}]
           [] cmd = "git_commit" ->
                [t EXCEPT !.committed = TRUE, !.commit_files = t.staged]
           [] OTHER -> t

\* the local origin after the command ran; inits counts the runs of git init
OriginAfter(cmd, ret, t, o) ==
    CASE cmd = "git_init" ->
            [o EXCEPT !.repo = (@ \/ ret = 0), !.inits = @ + 1]
      [] cmd = "git_push" /\ ret = 0 ->
            [o EXCEPT !.commits = @ + 1, !.head = t.commit_files]
      [] OTHER -> o

\* a pipeline that publishes without removing the archive file first
AfterCmdSkipsRemove(cmd) ==
    CASE cmd = "git_init" -> [pc |-> "l230", cmd |-> "none"]
      [] cmd = "git_clone" -> [pc |-> "l233", cmd |-> "none"]
      [] cmd = "unarchive" -> [pc |-> "l23", cmd |-> "git_add"]
      [] cmd = "git_add" -> [pc |-> "l23", cmd |-> "git_commit"]
      [] cmd = "git_commit" -> [pc |-> "l23", cmd |-> "git_push"]
      [] OTHER -> [pc |-> "l243", cmd |-> "none"]

\* lines 225-241: what the pipeline does once a command has exited 0
AfterCmd(cmd) ==
    CASE cmd = "git_init" -> [pc |-> "l230", cmd |-> "none"]
      [] cmd = "git_clone" -> [pc |-> "l233", cmd |-> "none"]
      [] cmd = "unarchive" -> [pc |-> "l239", cmd |-> "none"]
      [] cmd = "git_add" -> [pc |-> "l23", cmd |-> "git_commit"]
      [] cmd = "git_commit" -> [pc |-> "l23", cmd |-> "git_push"]
      [] OTHER -> [pc |-> "l243", cmd |-> "none"]

----------------------------------------------------------------------------
(* The pipeline: HandleFilesHelper, lines 163-268 *)

Emit(h, e) == [h EXCEPT !.events = Append(@, e)]

\* an exception of the given kind leaves the try block for the except clause
Raise(h, kind) ==
    [h EXCEPT !.pc = "l251", !.exc = [kind |-> kind, cause |-> "None"], !.raised = kind]

\* one staging directory at a fixed path, shared by all runs
UpdSharedStaging(p, h, t, o) ==
    /\ hfh' = [hfh EXCEPT ![p] = h]
    /\ tmp' = [q \in Procs |-> t]
    /\ origin' = o
    /\ UNCHANGED <<gp, ex, idq, fd, dl>>

\* the frame of a step of process p
Upd(p, h, t, o) ==
    /\ hfh' = [hfh EXCEPT ![p] = h]
    /\ tmp' = [tmp EXCEPT ![p] = t]
    /\ origin' = o
    /\ UNCHANGED <<gp, ex, idq, fd, dl>>

\* lines 195-198: whether __init__ finds an extension, and which
InitHasExt(kw, git_url) == kw # NoText \/ HasFileExtension(git_url)
InitExt(kw, git_url) == IF kw = NoText THEN ExtractFileExtension(git_url) ELSE kw

\* lines 185-213 and 257: a provider constructs the helper and calls handle_files_helper
Construct(p) ==
    /\ hfh[p].pc \in {"idle", "done", "closed"}
    /\ nruns < MaxRuns
    /\ nruns' = nruns + 1
    /\ \E kw \in Overrides :
        LET path == LocalOriginRepo(gp.repo_parent_dir, gp.content_provider, gp.git_url)
            made == [NoTmp EXCEPT !.exists = TRUE]
        IN  IF ~InitHasExt(kw, gp.git_url)
            THEN Upd(p, [FreshHelper EXCEPT !.pc = "done",
                            !.local_origin_repo = path,
                            !.error = [kind |-> "Exception", cause |-> "None"]],
                     made, origin)
            ELSE Upd(p, [FreshHelper EXCEPT !.pc = "l226",
                            !.local_origin_repo = path,
                            !.ext = InitExt(kw, gp.git_url)],
                     made, origin)

\* line 191: the finalizer of a TemporaryDirectory that was never cleaned up
\* removes it when the object is collected
TmpFinalizer(p) ==
    /\ hfh[p].pc = "done"
    /\ tmp[p].exists
    /\ Upd(p, hfh[p], Cleanup(tmp[p]), origin)
    /\ UNCHANGED nruns

\* an orchestrator that initializes the origin without the existence check
EnsureOriginNoCheck(p) ==
    /\ hfh[p].pc = "l226"
    /\ Upd(p, Emit([hfh[p] EXCEPT !.pc = "l64"], "Initializing repo ..."), tmp[p], origin)
    /\ UNCHANGED nruns

\* lines 226-228 and 62: the existence check, and the first message of the initialization
EnsureOrigin(p) ==
    /\ hfh[p].pc = "l226"
    /\ IF origin.exists
       THEN Upd(p, [hfh[p] EXCEPT !.pc = "l230"], tmp[p], origin)
       ELSE Upd(p, Emit([hfh[p] EXCEPT !.pc = "l64"], "Initializing repo ..."),
                tmp[p], origin)
    /\ UNCHANGED nruns

\* lines 63-65: os.makedirs(local_repo_path, exist_ok=True), then git init
InitMakedirs(p) ==
    /\ hfh[p].pc = "l64"
    /\ \/ Upd(p, [hfh[p] EXCEPT !.pc = "l23", !.cmd = "git_init"], tmp[p],
              [origin EXCEPT !.exists = TRUE])
       \/ Upd(p, Raise(hfh[p], "OSError"), tmp[p], origin)
    /\ UNCHANGED nruns

\* line 23: yield '$ {}\n'.format(' '.join(cmd))
ExecEcho(p) ==
    /\ hfh[p].pc = "l23"
    /\ Upd(p, Emit([hfh[p] EXCEPT !.pc = "l27"], EchoOf(hfh[p].cmd)), tmp[p], origin)
    /\ UNCHANGED nruns

\* lines 27-48: the process runs and its output lines are yielded
ExecPopen(p) ==
    /\ hfh[p].pc = "l27"
    /\ \E ret \in ExitCodes(hfh[p].cmd, hfh[p], tmp[p], origin) :
        Upd(p, [hfh[p] EXCEPT !.pc = "l50", !.ret = ret,
                              !.events = @ \o OutputOf(hfh[p].cmd, ret),
                              !.procs = Append(@, [cmd |-> hfh[p].cmd, ret |-> ret])],
            TmpAfter(hfh[p].cmd, ret, tmp[p], origin),
            OriginAfter(hfh[p].cmd, ret, tmp[p], origin))
    /\ UNCHANGED nruns

\* a runner that never looks at the exit code
ExecWaitIgnoresExit(p) ==
    /\ hfh[p].pc = "l50"
    /\ Upd(p, [hfh[p] EXCEPT !.pc = AfterCmd(hfh[p].cmd).pc,
                              !.cmd = AfterCmd(hfh[p].cmd).cmd],
           tmp[p], origin)
    /\ UNCHANGED nruns

\* lines 49-52: proc.wait(), CalledProcessError on a non-zero exit code
ExecWait(p) ==
    /\ hfh[p].pc = "l50"
    /\ IF hfh[p].ret # 0
       THEN Upd(p, Raise(hfh[p], "CalledProcessError"), tmp[p], origin)
       ELSE Upd(p, [hfh[p] EXCEPT !.pc = AfterCmd(hfh[p].cmd).pc,
                                  !.cmd = AfterCmd(hfh[p].cmd).cmd],
                tmp[p], origin)
    /\ UNCHANGED nruns

\* lines 230 and 80: yield "Cloning repo ...\n"
CloneMsg(p) ==
    /\ hfh[p].pc = "l230"
    /\ Upd(p, Emit([hfh[p] EXCEPT !.pc = "l81"], "Cloning repo ..."), tmp[p], origin)
    /\ UNCHANGED nruns

\* lines 81-86: the staging directory is removed and made again, then git clone
CloneReset(p) ==
    /\ hfh[p].pc = "l81"
    /\ \/ Upd(p, [hfh[p] EXCEPT !.pc = "l23", !.cmd = "git_clone"],
              [NoTmp EXCEPT !.exists = TRUE], origin)
       \/ Upd(p, Raise(hfh[p], "OSError"), tmp[p], origin)
    /\ UNCHANGED nruns

\* lines 233 and 128: yield "Downloading archive ...\n"
DownloadMsg(p) ==
    /\ hfh[p].pc = "l233"
    /\ Upd(p, Emit([hfh[p] EXCEPT !.pc = "l129"], "Downloading archive ..."),
           tmp[p], origin)
    /\ UNCHANGED nruns

\* lines 129-140: the response is streamed into the archive file
DownloadFetch(p) ==
    /\ hfh[p].pc = "l129"
    /\ \/ \E a \in Served :
            Upd(p, Emit([hfh[p] EXCEPT !.pc = "l236"], "Archive Downloaded...."),
                [tmp[p] EXCEPT !.entries = @ \cup {DownloadName(hfh[p].ext)},
                               !.archive = a],
                origin)
       \/ \* requests.get raises before the file is opened
          Upd(p, Raise(hfh[p], "RequestException"), tmp[p], origin)
       \/ \* the transfer breaks after a part of the body was written
          Upd(p, Raise(hfh[p], "RequestException"),
              [tmp[p] EXCEPT !.entries = @ \cup {DownloadName(hfh[p].ext)},
                             !.archive = [fmt |-> "html", entries |-> {}]],
              origin)
    /\ UNCHANGED nruns

\* lines 236 and 113-117: execute_unarchive picks unzip or tar
UnarchiveStart(p) ==
    /\ hfh[p].pc = "l236"
    /\ Upd(p, [hfh[p] EXCEPT !.pc = "l23", !.cmd = "unarchive"], tmp[p], origin)
    /\ UNCHANGED nruns

\* a pipeline that goes on to publish with the archive file left in place
RemoveArchiveKeepsFile(p) ==
    /\ hfh[p].pc = "l239"
    /\ Upd(p, [hfh[p] EXCEPT !.pc = "l23", !.cmd = "git_add"], tmp[p], origin)
    /\ UNCHANGED nruns

\* lines 239-240 and 149: os.remove(self.temp_download_file), then git add
RemoveArchive(p) ==
    /\ hfh[p].pc = "l239"
    /\ IF DownloadName(hfh[p].ext) \in tmp[p].entries
       THEN Upd(p, [hfh[p] EXCEPT !.pc = "l23", !.cmd = "git_add"],
                [tmp[p] EXCEPT !.entries = @ \ {DownloadName(hfh[p].ext)},
                               !.archive = NoArchive],
                origin)
       ELSE Upd(p, Raise(hfh[p], "FileNotFoundError"), tmp[p], origin)
    /\ UNCHANGED nruns

\* lines 243-247: the listing is filtered into self.dir_names; os.listdir returns
\* the entries in arbitrary order, so any of them may be dir_names[0]
ListDir(p) ==
    /\ hfh[p].pc = "l243"
    /\ LET dn == JunkFilter(tmp[p].entries)
       IN  \E f \in (IF dn = {} THEN {NoText} ELSE dn) :
             Upd(p, Emit([hfh[p] EXCEPT !.pc = "l248", !.unzipped_dirs = tmp[p].entries,
                                        !.dir_names = dn, !.first = f],
                         "blank"),
                 tmp[p], origin)
    /\ UNCHANGED nruns

\* line 248: yield "Process Complete: ..."
YieldComplete(p) ==
    /\ hfh[p].pc = "l248"
    /\ Upd(p, Emit([hfh[p] EXCEPT !.pc = "l249"], "Process Complete"), tmp[p], origin)
    /\ UNCHANGED nruns

\* line 249: yield f"The directory of your download is: {self.dir_names[0]}\n"
YieldDirName(p) ==
    /\ hfh[p].pc = "l249"
    /\ IF hfh[p].dir_names = {}
       THEN Upd(p, Raise(hfh[p], "IndexError"), tmp[p], origin)
       ELSE Upd(p, Emit([hfh[p] EXCEPT !.pc = "l255"], "The directory of your download is"),
                tmp[p], origin)
    /\ UNCHANGED nruns

\* an error handler that rolls the origin back by deleting it
ExceptRollsBack(p) ==
    /\ hfh[p].pc = "l251"
    /\ Upd(p, [hfh[p] EXCEPT !.pc = "l255", !.exc = WrapError(@)], tmp[p], NoOrigin)
    /\ UNCHANGED nruns

\* lines 251-253: except Exception as ex: raise ValueError(ex)
Except(p) ==
    /\ hfh[p].pc = "l251"
    /\ Upd(p, [hfh[p] EXCEPT !.pc = "l255", !.exc = WrapError(@)], tmp[p], origin)
    /\ UNCHANGED nruns

\* a cleanup at the end of the try block instead of in a finally clause
FinallyLeaksOnError(p) ==
    /\ hfh[p].pc = "l255"
    /\ Upd(p, [hfh[p] EXCEPT !.pc = IF hfh[p].exc = NoExc THEN "l268" ELSE "raise"],
           IF hfh[p].exc = NoExc THEN Cleanup(tmp[p]) ELSE tmp[p], origin)
    /\ UNCHANGED nruns

\* lines 254-255: finally: self.temp_download_dir.cleanup()
Finally(p) ==
    /\ hfh[p].pc = "l255"
    /\ Upd(p, [hfh[p] EXCEPT !.pc = IF hfh[p].exc = NoExc THEN "l268" ELSE "raise"],
           Cleanup(tmp[p]), origin)
    /\ UNCHANGED nruns

\* line 268: return {"source_dir_name": ..., "local_origin_repo_path": ...}
Return(p) ==
    /\ hfh[p].pc = "l268"
    /\ Upd(p, [hfh[p] EXCEPT !.pc = "done",
                  !.result = [source_dir_name |-> hfh[p].first,
                              local_origin_repo_path |-> hfh[p].local_origin_repo]],
           tmp[p], origin)
    /\ UNCHANGED nruns

\* the exception leaves handle_download_and_extraction and handle_files_helper
Throw(p) ==
    /\ hfh[p].pc = "raise"
    /\ hfh[p].exc.kind # "GeneratorExit"
    /\ Upd(p, [hfh[p] EXCEPT !.pc = "done", !.error = hfh[p].exc], tmp[p], origin)
    /\ UNCHANGED nruns

\* the generator is suspended at a yield: the last thing it did was to hand a
\* progress line to the caller (lines 23, 44, 47, 62, 80, 128, 140, 247-249)
AtYield(h) ==
    \/ h.pc \in {"l64", "l27", "l81", "l129", "l236", "l248", "l249"}
    \/ h.pc = "l50" /\ OutputOf(h.cmd, h.ret) # <<>>
    \/ h.pc = "l255" /\ h.exc = NoExc

GeneratorExit == [kind |-> "GeneratorExit", cause |-> "None"]

\* a generator whose cleanup is not in a finally clause: closing it skips the cleanup
AbandonSkipsFinally(p) ==
    /\ AtYield(hfh[p])
    /\ Upd(p, [hfh[p] EXCEPT !.pc = "raise", !.exc = GeneratorExit,
                             !.raised = "GeneratorExit"],
           tmp[p], origin)
    /\ UNCHANGED nruns

\* the caller abandons the stream: the generator is closed, GeneratorExit is
\* raised at the yield where it is suspended (the generators of the stage are
\* closed first, and execute_cmd's finally waits for a started process, lines
\* 49-50), it passes "except Exception" of line 251 and reaches the finally
\* clause of line 254
Abandon(p) ==
    /\ AtYield(hfh[p])
    /\ Upd(p, [hfh[p] EXCEPT !.pc = "l255", !.exc = GeneratorExit,
                             !.raised = "GeneratorExit"],
           tmp[p], origin)
    /\ UNCHANGED nruns

\* close() returns: GeneratorExit is not handed to the caller
Closed(p) ==
    /\ hfh[p].pc = "raise"
    /\ hfh[p].exc.kind = "GeneratorExit"
    /\ Upd(p, [hfh[p] EXCEPT !.pc = "closed"], tmp[p], origin)
    /\ UNCHANGED nruns

----------------------------------------------------------------------------
(* The sequential specification: one pipeline run at a time, for one source *)

\* the values of the variables a specification does not use
ExOff == [pc |-> "off"]
IdqOff == [on |-> FALSE]
FdOff == [pc |-> "off"]
DlOff == [pc |-> "off"]

PipelineInit ==
    /\ gp \in {[git_url |-> u, content_provider |-> Web, repo_parent_dir |-> ParentDir] :
                u \in PipelineUrls}
    /\ hfh = [p \in Procs |-> FreshHelper]
    /\ tmp = [p \in Procs |-> NoTmp]
    /\ origin = NoOrigin
    /\ nruns = 0

Init == PipelineInit /\ ex = ExOff /\ idq = IdqOff /\ fd = FdOff /\ dl = DlOff

Next ==
    \E p \in {1} :
        \/ Construct(p)
        \/ TmpFinalizer(p)
        \/ EnsureOrigin(p)
        \/ InitMakedirs(p)
        \/ ExecEcho(p)
        \/ ExecPopen(p)
        \/ ExecWait(p)
        \/ CloneMsg(p)
        \/ CloneReset(p)
        \/ DownloadMsg(p)
        \/ DownloadFetch(p)
        \/ UnarchiveStart(p)
        \/ RemoveArchive(p)
        \/ ListDir(p)
        \/ YieldComplete(p)
        \/ YieldDirName(p)
        \/ Except(p)
        \/ Finally(p)
        \/ Return(p)
        \/ Throw(p)

Spec == Init /\ [][Next]_vars

----------------------------------------------------------------------------
(* The pipeline with a caller that may abandon the stream of a run *)

NextCancel ==
    \E p \in {1} :
        \/ Construct(p)
        \/ TmpFinalizer(p)
        \/ EnsureOrigin(p)
        \/ InitMakedirs(p)
        \/ ExecEcho(p)
        \/ ExecPopen(p)
        \/ ExecWait(p)
        \/ CloneMsg(p)
        \/ CloneReset(p)
        \/ DownloadMsg(p)
        \/ DownloadFetch(p)
        \/ UnarchiveStart(p)
        \/ RemoveArchive(p)
        \/ ListDir(p)
        \/ YieldComplete(p)
        \/ YieldDirName(p)
        \/ Except(p)
        \/ Finally(p)
        \/ Return(p)
        \/ Throw(p)
        \/ Abandon(p)
        \/ Closed(p)

SpecCancel == Init /\ [][NextCancel]_vars

----------------------------------------------------------------------------
(* Concurrent invocations for one source: the runs of the process slots interleave *)

NextConcurrent ==
    \E p \in Procs :
        \/ Construct(p)
        \/ TmpFinalizer(p)
        \/ EnsureOrigin(p)
        \/ InitMakedirs(p)
        \/ ExecEcho(p)
        \/ ExecPopen(p)
        \/ ExecWait(p)
        \/ CloneMsg(p)
        \/ CloneReset(p)
        \/ DownloadMsg(p)
        \/ DownloadFetch(p)
        \/ UnarchiveStart(p)
        \/ RemoveArchive(p)
        \/ ListDir(p)
        \/ YieldComplete(p)
        \/ YieldDirName(p)
        \/ Except(p)
        \/ Finally(p)
        \/ Return(p)
        \/ Throw(p)

SpecConcurrent == Init /\ [][NextConcurrent]_vars

----------------------------------------------------------------------------
(* Properties of the pipeline, checked under Spec *)

\* the helper was constructed and its generator entered the pipeline
Constructed(h) == h.ext # NoText

HasResult(h) == h.result # NoResult
HasError(h) == h.error # NoExc

IsPrefix(s, t) == Len(s) <= Len(t) /\ SubSeq(t, 1, Len(s)) = s

CmdsOf(h) == [i \in 1..Len(h.procs) |-> h.procs[i].cmd]

AllCmds == <<"git_init", "git_clone", "unarchive", "git_add", "git_commit", "git_push">>

\* the run executed every command of the pipeline, in order, and each exited 0
\* (git init is left out when the origin existed)
AllStagesSucceeded(h) ==
    /\ CmdsOf(h) \in {AllCmds, Tail(AllCmds)}
    /\ \A i \in 1..Len(h.procs) : h.procs[i].ret = 0
    /\ h.raised = "None"
    /\ h.dir_names # {}

\* C1: once the pipeline has returned or thrown, the staging directory does not
\* exist, whether the run succeeded or failed at any of its stages.
C1_CleanupGuarantee ==
    \A p \in Procs :
        (hfh[p].pc = "done" /\ Constructed(hfh[p])) => ~tmp[p].exists

\* a run that failed at the push has been thrown to the caller
C1_Witness ==
    /\ hfh[1].pc = "done"
    /\ hfh[1].raised = "CalledProcessError"
    /\ Len(hfh[1].procs) > 0
    /\ hfh[1].procs[Len(hfh[1].procs)].cmd = "git_push"
    /\ hfh[1].error.kind = "ValueError"

\* C2: a run ends in exactly one terminal outcome, a result or an error and never
\* both, delivered once; a result only if every stage succeeded; and nothing is
\* emitted or delivered after it.
C2_ExactlyOneOutcome ==
    /\ [](\A p \in Procs :
            /\ ~(HasResult(hfh[p]) /\ HasError(hfh[p]))
            /\ (hfh[p].pc = "done") <=> (HasResult(hfh[p]) \/ HasError(hfh[p]))
            /\ HasResult(hfh[p]) => AllStagesSucceeded(hfh[p]))
    /\ [][\A p \in Procs :
            (hfh[p].pc = "done" /\ nruns' = nruns) => hfh'[p] = hfh[p]]_vars

\* a run has delivered its result after the last progress event
C2_Witness ==
    /\ hfh[1].pc = "done"
    /\ HasResult(hfh[1])
    /\ hfh[1].events[Len(hfh[1].events)] = "The directory of your download is"

\* the states of the orchestrator (section 4.5 of the specification) as positions
\* of the generator
StageOf(h) ==
    CASE h.pc = "done" -> IF HasResult(h) THEN "Done" ELSE IF HasError(h) THEN "Failed" ELSE "Idle"
      [] h.pc \in {"l251", "raise"} -> "Failed"
      [] h.pc = "l255" -> IF h.exc = NoExc THEN "DirectoryResolved" ELSE "Failed"
      [] h.pc \in {"idle", "l226", "l64"} -> "Idle"
      [] h.pc \in {"l230", "l81"} -> "RepoEnsured"
      [] h.pc \in {"l233", "l129"} -> "Cloned"
      [] h.pc = "l236" -> "Downloaded"
      [] h.pc = "l239" -> "Extracted"
      [] h.pc = "l243" -> "Published"
      [] h.pc \in {"l248", "l249", "l268"} -> "DirectoryResolved"
      [] h.pc \in {"l23", "l27", "l50"} ->
            (CASE h.cmd = "git_init" -> "Idle"
               [] h.cmd = "git_clone" -> "RepoEnsured"
               [] h.cmd = "unarchive" -> "Downloaded"
               [] OTHER -> "Extracted")
      [] OTHER -> "Unknown"

StageRank(s) ==
    CASE s = "Idle" -> 0 [] s = "RepoEnsured" -> 1 [] s = "Cloned" -> 2
      [] s = "Downloaded" -> 3 [] s = "Extracted" -> 4 [] s = "Published" -> 5
      [] s = "DirectoryResolved" -> 6 [] s = "Done" -> 7 [] s = "Failed" -> 8
      [] OTHER -> 99

\* C3: the stages run in the order Idle, RepoEnsured, Cloned, Downloaded,
\* Extracted, Published, DirectoryResolved, Done; a command starts only after the
\* commands before it exited 0; none is skipped or repeated; the archive file is
\* there when extraction has ended and gone when publishing starts; the only
\* other transition is to Failed, which nothing leaves.
C3_StageOrder ==
    /\ [](\A p \in Procs :
            LET h == hfh[p] IN
            /\ StageRank(StageOf(h)) <= 8
            /\ \/ IsPrefix(CmdsOf(h), AllCmds)
               \/ IsPrefix(CmdsOf(h), Tail(AllCmds))
            /\ \A i \in 1..(Len(h.procs) - 1) : h.procs[i].ret = 0
            /\ (h.pc \in {"l23", "l27"} /\ h.procs # <<>>)
                    => h.procs[Len(h.procs)].ret = 0
            /\ h.pc = "l239" => DownloadName(h.ext) \in tmp[p].entries
            /\ (h.pc \in {"l23", "l27", "l50"}
                    /\ h.cmd \in {"git_add", "git_commit", "git_push"})
                    => DownloadName(h.ext) \notin tmp[p].entries
            /\ StageRank(StageOf(h)) \in 5..7 => DownloadName(h.ext) \notin tmp[p].entries)
    /\ [][\A p \in Procs :
            LET s == StageOf(hfh[p])
                n == StageOf(hfh'[p])
            IN  nruns' = nruns =>
                    \/ n = s
                    \/ s # "Failed" /\ StageRank(n) = StageRank(s) + 1
                    \/ s \notin {"Failed", "Done"} /\ n = "Failed"]_vars

\* the archive file has been removed between the extraction and the first
\* command of the publishing
C3_Witness ==
    /\ hfh[1].pc = "l23"
    /\ hfh[1].cmd = "git_add"
    /\ CmdsOf(hfh[1]) = <<"git_init", "git_clone", "unarchive">>
    /\ MyProject \in tmp[1].entries
    /\ DownloadName(hfh[1].ext) \notin tmp[1].entries

\* C4: ensuring an origin that exists changes nothing and raises nothing, and
\* over any sequence of runs for one source the bare repository is initialized
\* only when the origin path does not exist yet: at most once, and never over
\* an existing repository.
C4_IdempotentOrigin ==
    /\ [](origin.inits <= 1)
    /\ [][/\ \A p \in Procs :
                (hfh[p].pc = "l226" /\ origin.exists /\ hfh'[p] # hfh[p])
                    => /\ origin' = origin
                       /\ hfh'[p].pc = "l230"
                       /\ hfh'[p].exc = NoExc
                       /\ hfh'[p].events = hfh[p].events
          /\ origin'.inits > origin.inits
                => /\ ~origin.repo
                   /\ origin.commits = 0
                   /\ \E p \in Procs :
                        hfh[p].events = <<"Initializing repo ...", EchoOf("git_init")>>]_vars

\* a second run has passed the existence check of an origin the first run made
C4_Witness ==
    /\ nruns = 2
    /\ hfh[1].pc = "l230"
    /\ hfh[1].events = <<>>
    /\ origin.inits = 1
    /\ origin.commits = 1

\* the entries of a listing other than the two junk entries
NotJunk(listing) == listing \ {GitDir, Macosx}

\* C9: the directory name of the result is a top-level entry of the staging
\* directory that is neither .git nor __MACOSX, and nothing else is excluded: a
\* listing with exactly one entry besides those two resolves to that entry.
C9_JunkFiltering ==
    \A p \in Procs :
        LET h == hfh[p] IN
        /\ HasResult(h) => h.result.source_dir_name \in NotJunk(h.unzipped_dirs)
        /\ (h.pc = "done" /\ Cardinality(NotJunk(h.unzipped_dirs)) = 1)
                => {h.result.source_dir_name} = NotJunk(h.unzipped_dirs)

\* C10 as stated: an error a stage raised reaches the caller unmodified, as the
\* kind of error the stage raised.
C10_PropagatesUnmodified ==
    \A p \in Procs :
        (hfh[p].pc = "done" /\ hfh[p].raised # "None")
            => hfh[p].error = [kind |-> hfh[p].raised, cause |-> "None"]

\* C10 as amended: every error a stage of the pipeline raised reaches the caller
\* as a ValueError that wraps it and keeps the original error as its cause; a
\* run in which no stage raised delivers no error.
C10_WrappedWithCause ==
    \A p \in Procs :
        (hfh[p].pc = "done" /\ Constructed(hfh[p]))
            => hfh[p].error = (IF hfh[p].raised = "None" THEN NoExc
                               ELSE [kind |-> "ValueError", cause |-> hfh[p].raised])

\* a failed download has been thrown to the caller
C10_Witness ==
    /\ hfh[1].pc = "done"
    /\ hfh[1].raised = "RequestException"
    /\ HasError(hfh[1])

\* C11: a run is never made to fail by what an earlier failed run left on disk:
\* whenever a git command of the pipeline is about to start, the origin and the
\* staging directory it finds allow it to exit 0, so that a re-invocation in
\* which no external operation fails reaches Done.
C11_RetrySafety ==
    \A p \in Procs :
        (hfh[p].pc = "l27" /\ hfh[p].cmd \in Cmds \ {"unarchive"})
            => CanSucceed(hfh[p].cmd, hfh[p], tmp[p], origin)

\* the run pushed a commit to the origin
Pushed(h) == \E i \in 1..Len(h.procs) : h.procs[i] = [cmd |-> "git_push", ret |-> 0]

\* C12: an invocation adds at most one commit to the origin; one that succeeds
\* has added exactly one, and one that ends in failure has added none.
C12_CommitCount ==
    /\ [](origin.commits <= nruns)
    /\ [](\A p \in Procs :
            (hfh[p].pc = "done" /\ Constructed(hfh[p]))
                => /\ HasResult(hfh[p]) => Pushed(hfh[p])
                   /\ HasError(hfh[p]) => ~Pushed(hfh[p]))
    /\ [][origin'.commits # origin.commits
            => /\ origin'.commits = origin.commits + 1
               /\ \E p \in Procs : Pushed(hfh'[p]) /\ ~Pushed(hfh[p])]_vars

\* C13: a run whose staging directory holds no entry after the junk filter ends
\* in an explicit empty-archive error, the same for every such run, and never
\* in the error of indexing an empty list.
C13_EmptyArchiveDefined ==
    \A p \in Procs :
        (hfh[p].pc = "done" /\ "Process Complete" \in {hfh[p].events[i] : i \in 1..Len(hfh[p].events)}
            /\ hfh[p].dir_names = {})
            => /\ hfh[p].raised = "EmptyArchiveError"
               /\ hfh[p].error.cause # "IndexError"

\* C15: when the caller has abandoned the stream at a yield point, whatever the
\* stage, the staging directory is removed once the generator is closed.
C15_CancellationCleanup ==
    \A p \in Procs : hfh[p].pc = "closed" => ~tmp[p].exists

\* the stream was abandoned after the echo of git push, with the extracted
\* files committed in the staging directory
C15_Witness ==
    /\ hfh[1].pc = "closed"
    /\ hfh[1].events # <<>>
    /\ hfh[1].events[Len(hfh[1].events)] = EchoOf("git_push")
    /\ ~HasResult(hfh[1])
    /\ ~HasError(hfh[1])

\* C16: the staging directory of a run is changed by that run's steps only:
\* a step that changes it changes nothing of any other run. (The origin is
\* shared and not coordinated: the states in which both runs initialize it, and
\* in which the other run's push makes a push fail, are reached.)
C16_StagingIsolation ==
    [][\A p \in Procs :
            tmp'[p] # tmp[p]
                => \A q \in Procs \ {p} : hfh'[q] = hfh[q] /\ tmp'[q] = tmp[q]]_vars

\* both runs have passed the existence check and run git init on the one path,
\* run 1 has delivered its result, and run 2, whose commands all exited 0 so
\* far, is about to push onto an origin that run 1's push has moved
C16_Witness ==
    /\ origin.inits = 2
    /\ HasResult(hfh[1])
    /\ hfh[2].pc = "l27"
    /\ hfh[2].cmd = "git_push"
    /\ CmdsOf(hfh[2]) = <<"git_init", "git_clone", "unarchive", "git_add", "git_commit">>
    /\ \A i \in 1..Len(hfh[2].procs) : hfh[2].procs[i].ret = 0
    /\ ~CanSucceed("git_push", hfh[2], tmp[2], origin)

\* what of the origin is on disk
OnDisk(o) == [exists |-> o.exists, repo |-> o.repo, commits |-> o.commits, head |-> o.head]

\* C17: no step of the pipeline deletes the origin or rolls it back: a path
\* that exists and a repository that was initialized stay, the number of
\* commits never decreases, and neither a failing command nor the handling of
\* an error (except, finally, re-raise) changes what is on disk.
C17_OriginNeverRolledBack ==
    [][/\ origin.exists => origin'.exists
       /\ origin.repo => origin'.repo
       /\ origin'.commits >= origin.commits
       /\ \A p \in Procs :
            \/ hfh[p].pc \in {"l251", "l255", "raise"} /\ hfh'[p] # hfh[p]
            \/ hfh[p].pc = "l27" /\ hfh'[p].pc = "l50" /\ hfh'[p].ret # 0
            => OnDisk(origin') = OnDisk(origin)]_vars

\* a run that failed after git init has ended: the bare repository it created
\* is still there, with no commit
C17_Witness ==
    /\ hfh[1].pc = "done"
    /\ HasError(hfh[1])
    /\ nruns = 1
    /\ origin.exists
    /\ origin.repo
    /\ origin.commits = 0

\* the archive files in a staging directory
ArchiveFiles(t) == {e \in t.entries : e \in {DownloadName(Zip), DownloadName(Tgz)}}

EventsOf(h) == {h.events[i] : i \in 1..Len(h.events)}

\* C19 as stated: as long as the staging directory exists, exactly one archive
\* file is in it.
C19_ExactlyOneArchive ==
    \A p \in Procs :
        (tmp[p].exists /\ Constructed(hfh[p])) => Cardinality(ArchiveFiles(tmp[p])) = 1

\* C19 as amended: a staging directory holds at most one archive file: none
\* before the download has started, exactly one from the end of the download
\* to the end of the extraction, and none once publishing has started.
C19_AtMostOneArchive ==
    \A p \in Procs :
        LET h == hfh[p]
            files == ArchiveFiles(tmp[p])
        IN  /\ files \subseteq {DownloadName(h.ext)}
            /\ files # {} => /\ "Downloading archive ..." \in EventsOf(h)
                             /\ "git_add" \notin {h.procs[i].cmd : i \in 1..Len(h.procs)}
                             /\ ~(h.pc \in {"l23", "l27", "l50"} /\ h.cmd = "git_add")
            /\ \/ h.pc \in {"l236", "l239"}
               \/ h.pc \in {"l23", "l27", "l50"} /\ h.cmd = "unarchive"
               => files = {DownloadName(h.ext)}

\* the archive has been extracted and is still the one archive file of the
\* staging directory; it is removed by the next step
C19_Witness ==
    /\ hfh[1].pc = "l239"
    /\ ArchiveFiles(tmp[1]) = {DownloadName(Zip)}
    /\ Notes \in tmp[1].entries

\* the run is between the end of the extraction and the end of the push
Publishing(h) ==
    \/ h.pc = "l239"
    \/ h.pc \in {"l23", "l27", "l50"} /\ h.cmd \in {"git_add", "git_commit", "git_push"}

\* C21: content accumulates over the runs for one source: when the extraction
\* has ended the staging directory holds every file of the archive and every
\* file of the origin's head; up to the push it loses nothing but the archive
\* file; the push makes all of it the new head, so the head only ever gains
\* files; and the archive file itself is never in the head.
C21_ContentAccumulates ==
    /\ [](\A p \in Procs :
            hfh[p].pc = "l239"
                => (tmp[p].archive.entries \cup origin.head) \subseteq tmp[p].entries)
    /\ [](origin.head \cap {GitDir, DownloadName(Zip), DownloadName(Tgz)} = {})
    /\ [][/\ origin.head \subseteq origin'.head
          /\ \A p \in Procs :
                /\ (Publishing(hfh[p]) /\ hfh'[p].pc # "l255" /\ nruns' = nruns)
                    => (tmp[p].entries \ {DownloadName(hfh[p].ext)}) \subseteq tmp'[p].entries
                /\ (hfh[p].pc = "l27" /\ hfh[p].cmd = "git_push"
                        /\ hfh'[p].pc = "l50" /\ hfh'[p].ret = 0)
                    => origin'.head = tmp[p].entries \ {GitDir}]_vars

\* two runs have succeeded: the head holds the files of both archives, one of
\* which the second archive did not contain
C21_Witness ==
    /\ nruns = 2
    /\ HasResult(hfh[1])
    /\ origin.commits = 2
    /\ origin.head = {MyProject, Notes}
    /\ hfh[1].unzipped_dirs = {GitDir, MyProject, Notes}

----------------------------------------------------------------------------
(* execute_cmd on the output of one process: lines 16-52 *)

\* longest process output enumerated
MaxStream == 4

CR == "\r"
LF == "\n"
\* a byte that is no valid utf8
BadByte == "xFF"
\* what decode('utf8', 'replace') puts in its place
ReplacementChar == "uFFFD"

Bytes == {"a", CR, LF, BadByte}

\* the output of the specification's example, "a\r\nb\rc\n"
ExampleStream == <<"a", CR, LF, "b", CR, "c", LF>>

Streams == UNION {[1..n -> Bytes] : n \in 0..MaxStream} \cup {ExampleStream}

\* line 36: b''.join(buf).decode('utf8', 'replace')
Decode(buf) == [i \in 1..Len(buf) |-> IF buf[i] = BadByte THEN ReplacementChar ELSE buf[i]]

NoCalledProcessError == [kind |-> "None", returncode |-> 0, cmd |-> "none"]

LinesPipelineOff ==
    /\ gp = [git_url |-> UrlWithSuffix, content_provider |-> Web, repo_parent_dir |-> ParentDir]
    /\ hfh = [p \in Procs |-> FreshHelper]
    /\ tmp = [p \in Procs |-> NoTmp]
    /\ origin = NoOrigin
    /\ nruns = 0

\* a call execute_cmd(cmd) whose process will print out and exit with ret
LinesInit ==
    /\ LinesPipelineOff
    /\ idq = IdqOff
    /\ fd = FdOff
    /\ dl = DlOff
    /\ ex \in {[pc |-> "l23", out |-> s, rest |-> s, buf |-> <<>>, c_last |-> "",
                echoed |-> FALSE, lines |-> <<>>, ret |-> r,
                error |-> NoCalledProcessError] :
                    s \in Streams, r \in {0, 1}}

\* lines 23-27: the command line is yielded and the process started
CmdEcho ==
    /\ ex.pc = "l23"
    /\ ex' = [ex EXCEPT !.pc = "l42", !.echoed = TRUE]
    /\ UNCHANGED <<pvars, idq, fd, dl>>

\* lines 42-48: one byte is read; a line is yielded before it when the byte
\* before was a carriage return, and after it when it is a line feed
CmdRead ==
    /\ ex.pc = "l42"
    /\ ex.rest # <<>>
    /\ LET c == Head(ex.rest)
           early == ex.c_last = CR /\ ex.buf # <<>> /\ c # LF
           lines1 == IF early THEN Append(ex.lines, Decode(ex.buf)) ELSE ex.lines
           buf1 == Append(IF early THEN <<>> ELSE ex.buf, c)
       IN  ex' = [ex EXCEPT !.rest = Tail(ex.rest),
                            !.lines = IF c = LF THEN Append(lines1, Decode(buf1)) ELSE lines1,
                            !.buf = IF c = LF THEN <<>> ELSE buf1,
                            !.c_last = c]
    /\ UNCHANGED <<pvars, idq, fd, dl>>

\* line 42: read(1) returns b'' and the loop ends; what is left in buf is not yielded
CmdEof ==
    /\ ex.pc = "l42"
    /\ ex.rest = <<>>
    /\ ex' = [ex EXCEPT !.pc = "l50"]
    /\ UNCHANGED <<pvars, idq, fd, dl>>

\* lines 49-52: ret = proc.wait(); CalledProcessError(ret, cmd) when it is not 0
CmdWait ==
    /\ ex.pc = "l50"
    /\ ex' = IF ex.ret # 0
             THEN [ex EXCEPT !.pc = "raised",
                     !.error = [kind |-> "CalledProcessError", returncode |-> ex.ret,
                                cmd |-> "cmd"]]
             ELSE [ex EXCEPT !.pc = "returned"]
    /\ UNCHANGED <<pvars, idq, fd, dl>>

LinesNext == CmdEcho \/ CmdRead \/ CmdEof \/ CmdWait

SpecLines == LinesInit /\ [][LinesNext]_vars

----------------------------------------------------------------------------
(* Properties of execute_cmd, checked under SpecLines *)

\* the positions of a stream that end a line: a line feed, or a carriage return
\* that no line feed follows
Boundaries(s) ==
    {i \in 1..Len(s) : s[i] = LF \/ (s[i] = CR /\ (i = Len(s) \/ s[i + 1] # LF))}

\* a line without its line end
Chomp(line) == SelectSeq(line, LAMBDA c : c \notin {CR, LF})

RECURSIVE Flatten(_)
Flatten(ss) == IF ss = <<>> THEN <<>> ELSE Head(ss) \o Flatten(Tail(ss))

CmdEnded == ex.pc \in {"returned", "raised"}

\* C6: the runner yields one line per boundary of the output (a line feed, a
\* carriage return and line feed pair, or a carriage return alone), and the
\* output "a\r\nb\rc\n" yields the lines a, b, c.
C6_LinePerBoundary ==
    CmdEnded =>
        /\ Len(ex.lines) = Cardinality(Boundaries(ex.out))
        /\ ex.out = ExampleStream
                => [i \in 1..Len(ex.lines) |-> Chomp(ex.lines[i])]
                        = <<<<"a">>, <<"b">>, <<"c">>>>

\* C7: the error, carrying exit code and command, is raised if and only if the
\* exit code is not 0, and only after the output has ended and all of it has
\* been yielded to the caller.
C7_ErrorAfterAllOutput ==
    /\ CmdEnded => (ex.pc = "raised" <=> ex.ret # 0)
    /\ ex.pc = "raised" =>
        /\ ex.error = [kind |-> "CalledProcessError", returncode |-> ex.ret, cmd |-> "cmd"]
        /\ ex.rest = <<>>
        /\ Flatten(ex.lines) = Decode(ex.out)

\* C20: no output is lost: once the call has ended, the lines yielded after
\* the echo of the command, put together, are the whole decoded output of the
\* process, also when its last bytes are not followed by a line feed.
C20_NoOutputLost ==
    CmdEnded => (ex.echoed /\ ex.buf = <<>> /\ Flatten(ex.lines) = Decode(ex.out))

----------------------------------------------------------------------------
(* The local origin paths of two descriptors: HandleFilesHelper.__init__, lines 186-190 *)

\* "h://ab.zip", "h://a-b.zip", "h://a/c.zip", "h://a/b.tgz"
UrlJoined == <<"h", ":", "/", "/", "a", "b", ".", "z", "i", "p">>
UrlDash == <<"h", ":", "/", "/", "a", "-", "b", ".", "z", "i", "p">>
UrlOther == <<"h", ":", "/", "/", "a", "/", "c", ".", "z", "i", "p">>
UrlTgz == <<"h", ":", "/", "/", "a", "/", "b", ".", "t", "g", "z">>
IdentUrls == {UrlWithSuffix, UrlNoSuffix, UrlJoined, UrlDash, UrlOther, UrlTgz}

Dropbox == <<"d", "r", "o", "p", "b", "o", "x">>
GoogleDrive == <<"g", "o", "o", "g", "l", "e", "d", "r", "i", "v", "e">>

Descriptors == [providerName : {Web, Dropbox}, url : IdentUrls]

IdentInit ==
    /\ LinesPipelineOff
    /\ ex = ExOff
    /\ fd = FdOff
    /\ dl = DlOff
    /\ idq \in {[on |-> TRUE, pc |-> "new", a |-> a, b |-> b,
                 path_a |-> NoText, path_b |-> NoText] :
                    a \in Descriptors, b \in Descriptors}

\* two helpers are constructed under one parent directory; each computes its
\* self.local_origin_repo
ResolvePaths ==
    /\ idq.pc = "new"
    /\ idq' = [idq EXCEPT !.pc = "resolved",
                  !.path_a = LocalOriginRepo(ParentDir, idq.a.providerName, idq.a.url),
                  !.path_b = LocalOriginRepo(ParentDir, idq.b.providerName, idq.b.url)]
    /\ UNCHANGED <<pvars, ex, fd, dl>>

IdentNext == ResolvePaths

SpecIdent == IdentInit /\ [][IdentNext]_vars

\* C5: descriptors with the same provider name and url resolve to the same local
\* origin path, and descriptors that differ in either resolve to different paths.
C5_DeterministicIdentity ==
    idq.pc = "resolved" =>
        /\ idq.a = idq.b => idq.path_a = idq.path_b
        /\ idq.a # idq.b => idq.path_a # idq.path_b

----------------------------------------------------------------------------
(* Archive-format detection: the provider plugins and HandleFilesHelper.__init__ *)

Filename == <<"f", "i", "l", "e", "n", "a", "m", "e">>

\* the match of "filename\*?=([^;]+)" that starts at position i, or NoText
MatchAt(cd, i) ==
    LET j == i + Len(Filename)
        k == IF j <= Len(cd) /\ cd[j] = "*" THEN j + 1 ELSE j
    IN  IF /\ i + Len(Filename) - 1 <= Len(cd)
           /\ SubSeq(cd, i, i + Len(Filename) - 1) = Filename
           /\ k <= Len(cd)
           /\ cd[k] = "="
        THEN Before(SubSeq(cd, k + 1, Len(cd)), {";"})
        ELSE NoText

\* re.findall("filename\*?=([^;]+)", content_disposition)[0], or NoText when the list is empty
FilenameMatch(cd) ==
    LET starts == {i \in 1..Len(cd) : MatchAt(cd, i) # NoText}
    IN  IF starts = {} THEN NoText ELSE MatchAt(cd, Min(starts))

RECURSIVE StripEnds(_, _)
\* Python: s.strip(cs)
StripEnds(s, cs) ==
    IF s = <<>> THEN s
    ELSE IF Head(s) \in cs THEN StripEnds(Tail(s), cs)
    ELSE IF s[Len(s)] \in cs THEN StripEnds(SubSeq(s, 1, Len(s) - 1), cs)
    ELSE s

\* Python: s.split(".")[1]
SecondDotPart(s) == Before(SubSeq(s, Min(Positions(s, {"."})) + 1, Len(s)), {"."})

\* determine_file_extension_from_response, lines 121-139: the extension, or the
\* exception it ends with
DriveExt(content_disposition) ==
    IF content_disposition = NoText
    THEN [ok |-> FALSE, ext |-> NoText, err |-> "Exception"]
    ELSE LET m == FilenameMatch(content_disposition)
             file_name == StripEnds(StripEnds(m, {" "}), {"\""})
         IN  IF m = NoText \/ DotParts(file_name) < 2
             THEN [ok |-> FALSE, ext |-> NoText, err |-> "IndexError"]
             ELSE [ok |-> TRUE, ext |-> SecondDotPart(file_name), err |-> "None"]

RECURSIVE ReplaceAll(_, _, _)
\* Python: s.replace(old, new)
ReplaceAll(s, old, new) ==
    IF Len(s) < Len(old) THEN s
    ELSE IF SubSeq(s, 1, Len(old)) = old
         THEN new \o ReplaceAll(SubSeq(s, Len(old) + 1, Len(s)), old, new)
         ELSE <<Head(s)>> \o ReplaceAll(Tail(s), old, new)

\* the content-disposition headers of the first response of Google Drive:
\* attachment;filename="a.tgz", filename=a.zip, filename*=a.tgz, filename=a, inline
HeaderQuoted == <<"a", "t", "t", "a", "c", "h", "m", "e", "n", "t", ";", "f", "i", "l", "e", "n", "a", "m", "e", "=", "\"", "a", ".", "t", "g", "z", "\"">>
HeaderPlain == <<"f", "i", "l", "e", "n", "a", "m", "e", "=", "a", ".", "z", "i", "p">>
HeaderStar == <<"f", "i", "l", "e", "n", "a", "m", "e", "*", "=", "a", ".", "t", "g", "z">>
HeaderNoDot == <<"f", "i", "l", "e", "n", "a", "m", "e", "=", "a">>
HeaderNoName == <<"i", "n", "l", "i", "n", "e">>
Headers == {NoText, HeaderQuoted, HeaderPlain, HeaderStar, HeaderNoDot, HeaderNoName}

\* "h://a/b.zip?dl=0"
UrlDl0 == <<"h", ":", "/", "/", "a", "/", "b", ".", "z", "i", "p", "?", "d", "l", "=", "0">>
FormatUrls == {UrlWithSuffix, UrlNoSuffix, UrlDl0}

\* a provider is called with a git_puller_ref: the url, the caller's "extension"
\* in other_kw_args (override), and for Google Drive the content-disposition
\* header its first response will carry
FormatInit ==
    /\ LinesPipelineOff
    /\ ex = ExOff
    /\ idq = IdqOff
    /\ dl = DlOff
    /\ fd \in {[pc |-> "new", provider |-> pr, override |-> ov, kw |-> ov, header |-> hd,
                url |-> u, ext |-> NoText, error |-> "None"] :
                  pr \in {Web, Dropbox, GoogleDrive}, ov \in Overrides,
                  hd \in Headers, u \in FormatUrls}
    /\ fd.provider # GoogleDrive => fd.header = NoText

\* prepare_non_git_source_local_origin of the three plugins, up to the helper's
\* construction: generic web passes the reference on, Dropbox rewrites dl=0 to
\* dl=1, Google Drive first asks the response for the extension
ProviderStart ==
    /\ fd.pc = "new"
    /\ fd' = IF fd.provider = GoogleDrive THEN [fd EXCEPT !.pc = "l23"]
             ELSE IF fd.provider = Dropbox
             THEN [fd EXCEPT !.pc = "init",
                      !.url = ReplaceAll(@, <<"d", "l", "=", "0">>, <<"d", "l", "=", "1">>)]
             ELSE [fd EXCEPT !.pc = "init"]
    /\ UNCHANGED <<pvars, ex, idq, dl>>

\* googledrive_downloader lines 23-27: the extension found in the response is
\* stored as other_kw_args["extension"], whatever the caller had put there
DriveDetect ==
    /\ fd.pc = "l23"
    /\ LET r == DriveExt(fd.header)
       IN  fd' = IF r.ok THEN [fd EXCEPT !.pc = "init", !.kw = r.ext]
                 ELSE [fd EXCEPT !.pc = "done", !.error = r.err]
    /\ UNCHANGED <<pvars, ex, idq, dl>>

\* plugin_helper lines 195-198: the extension of other_kw_args, else of the url
HelperInitExt ==
    /\ fd.pc = "init"
    /\ fd' = IF InitHasExt(fd.kw, fd.url)
             THEN [fd EXCEPT !.pc = "done", !.ext = InitExt(fd.kw, fd.url)]
             ELSE [fd EXCEPT !.pc = "done", !.error = "Exception"]
    /\ UNCHANGED <<pvars, ex, idq, dl>>

FormatNext == ProviderStart \/ DriveDetect \/ HelperInitExt

SpecFormat == FormatInit /\ [][FormatNext]_vars

\* C8: an explicit extension override wins over a content-disposition header,
\* which wins over the suffix of the url; an error is raised only when none of
\* the three yields an extension.
C8_DetectionPrecedence ==
    fd.pc = "done" =>
        LET hx == DriveExt(fd.header)
            expected == IF fd.override # NoText THEN fd.override
                        ELSE IF hx.ok THEN hx.ext
                        ELSE ExtractFileExtension(fd.url)
            none == fd.override = NoText /\ ~hx.ok /\ ~HasFileExtension(fd.url)
        IN  /\ fd.error # "None" <=> none
            /\ fd.error = "None" => fd.ext = expected

----------------------------------------------------------------------------
(* The http requests of one invocation: download_archive of plugin_helper.py *)
(* (lines 121-140) for generic web and Dropbox, get_response_from_drive and  *)
(* download_archive_for_google of googledrive_downloader.py for Google Drive *)

\* get_confirm_token line 59: the prefix of the cookie that carries the token
DownloadWarning ==
    <<"d", "o", "w", "n", "l", "o", "a", "d", "_", "w", "a", "r", "n", "i", "n", "g">>

\* cookie names: "NID", "download" and "download_warning_1"
CookieNid == <<"N", "I", "D">>
CookieDownload == <<"d", "o", "w", "n", "l", "o", "a", "d">>
CookieWarning == DownloadWarning \o <<"_", "1">>

\* the cookies the server sets on the first response of a session; a token is
\* a non-empty text
CookieJars ==
    {<<>>,
     <<[key |-> CookieNid, value |-> <<"n">>]>>,
     <<[key |-> CookieDownload, value |-> <<"x">>]>>,
     <<[key |-> CookieNid, value |-> <<"n">>], [key |-> CookieWarning, value |-> <<"t">>]>>,
     <<[key |-> CookieWarning, value |-> <<"t">>], [key |-> CookieNid, value |-> <<"n">>]>>}

\* response bodies as the chunks iter_content delivers; the empty chunk is a keep-alive
FirstBodies == {<<<<"w">>>>, <<<<"z">>, <<>>, <<"q">>>>}
SecondBodies == {<<<<"y">>, <<"k">>>>}

\* get_confirm_token lines 57-61: the value of the first cookie whose name
\* starts with download_warning, None (NoText) when there is none
RECURSIVE GetConfirmToken(_)
GetConfirmToken(cookies) ==
    IF cookies = <<>> THEN NoText
    ELSE IF StartsWith(DownloadWarning, Head(cookies).key) THEN Head(cookies).value
    ELSE GetConfirmToken(Tail(cookies))

\* a GET of the download url, by the function that issued it
Get(fn, confirm) == [fn |-> fn, confirm |-> confirm]

FetchInit ==
    /\ LinesPipelineOff
    /\ ex = ExOff
    /\ idq = IdqOff
    /\ fd = FdOff
    /\ dl \in {[pc |-> "new", provider |-> pr, jar |-> j, body1 |-> b1, body2 |-> b2,
                session |-> <<>>, token |-> NoText, response |-> <<>>, rest |-> <<>>,
                file |-> <<>>, gets |-> <<>>, error |-> "None", later |-> FALSE] :
                  pr \in {Web, Dropbox, GoogleDrive}, j \in CookieJars,
                  b1 \in FirstBodies, b2 \in SecondBodies}
    /\ dl.provider # GoogleDrive => dl.jar = <<>>

\* an error raised in the fetch leaves the pipeline through except and finally
FetchFail(kind) == dl' = [dl EXCEPT !.pc = "done", !.error = kind]

\* the plugin is entered; generic web and Dropbox construct the helper at once
FetchStart ==
    /\ dl.pc = "new"
    /\ dl' = [dl EXCEPT !.pc = IF dl.provider = GoogleDrive THEN "g23" ELSE "l129"]
    /\ UNCHANGED <<pvars, ex, idq, fd>>

\* googledrive_downloader lines 23-24 and 111-118: get_response_from_drive
\* GETs the file (not streamed), GETs it again with the token when the session
\* got one, and the extension is read from the response
DriveProbe ==
    /\ dl.pc = "g23"
    /\ LET token == GetConfirmToken(dl.jar)
           first == Append(dl.gets, Get("get_response_from_drive", NoText))
           both == IF token # NoText
                   THEN Append(first, Get("get_response_from_drive", token))
                   ELSE first
       IN  \/ dl' = [dl EXCEPT !.pc = "g78", !.gets = both]
           \/ dl' = [dl EXCEPT !.pc = "done", !.gets = first, !.error = "RequestException"]
           \/ dl' = [dl EXCEPT !.pc = "done", !.gets = both, !.error = "Exception"]
    /\ UNCHANGED <<pvars, ex, idq, fd>>

\* googledrive_downloader lines 76-78: the first GET of a new session
DriveGet ==
    /\ dl.pc = "g78"
    /\ \/ dl' = [dl EXCEPT !.pc = "g79", !.session = dl.jar, !.response = dl.body1,
                          !.gets = Append(@, Get("download_archive_for_google", NoText))]
       \/ FetchFail("RequestException")
    /\ UNCHANGED <<pvars, ex, idq, fd>>

\* a handshake that reissues the GET but goes on reading the first response
DriveConfirmKeepsFirst ==
    /\ dl.pc = "g79"
    /\ LET token == GetConfirmToken(dl.session)
       IN  IF token # NoText
           THEN \/ dl' = [dl EXCEPT !.pc = "write", !.token = token,
                                 !.rest = dl.response,
                                 !.gets = Append(@, Get("download_archive_for_google", token))]
                \/ FetchFail("RequestException")
           ELSE dl' = [dl EXCEPT !.pc = "write", !.rest = dl.response]
    /\ UNCHANGED <<pvars, ex, idq, fd>>

\* googledrive_downloader lines 79-83: with a token the GET is reissued with
\* confirm=<token> and its response replaces the first
DriveConfirm ==
    /\ dl.pc = "g79"
    /\ LET token == GetConfirmToken(dl.session)
       IN  IF token # NoText
           THEN \/ dl' = [dl EXCEPT !.pc = "write", !.token = token,
                                 !.response = dl.body2, !.rest = dl.body2,
                                 !.gets = Append(@, Get("download_archive_for_google", token))]
                \/ FetchFail("RequestException")
           ELSE dl' = [dl EXCEPT !.pc = "write", !.rest = dl.response]
    /\ UNCHANGED <<pvars, ex, idq, fd>>

\* plugin_helper lines 129-130: the one GET of download_archive
WebGet ==
    /\ dl.pc = "l129"
    /\ \/ dl' = [dl EXCEPT !.pc = "write", !.response = dl.body1, !.rest = dl.body1,
                          !.gets = Append(@, Get("download_archive", NoText))]
       \/ FetchFail("RequestException")
    /\ UNCHANGED <<pvars, ex, idq, fd>>

\* plugin_helper lines 132-138, googledrive_downloader lines 85-91: a chunk that
\* is not empty is appended to the archive file; the transfer may break
WriteChunk ==
    /\ dl.pc = "write"
    /\ dl.rest # <<>>
    /\ \/ dl' = [dl EXCEPT !.rest = Tail(@),
                          !.file = IF Head(dl.rest) # <<>> THEN @ \o Head(dl.rest) ELSE @]
       \/ FetchFail("RequestException")
    /\ UNCHANGED <<pvars, ex, idq, fd>>

\* plugin_helper line 140, googledrive_downloader line 92: "Archive Downloaded...."
FetchEnd ==
    /\ dl.pc = "write"
    /\ dl.rest = <<>>
    /\ dl' = [dl EXCEPT !.pc = "l236"]
    /\ UNCHANGED <<pvars, ex, idq, fd>>

\* plugin_helper lines 236-249: the stages after the fetch
LaterStages ==
    /\ dl.pc = "l236"
    /\ dl' = [dl EXCEPT !.pc = "done", !.later = TRUE]
    /\ UNCHANGED <<pvars, ex, idq, fd>>

FetchNext ==
    \/ FetchStart
    \/ DriveProbe
    \/ DriveGet
    \/ DriveConfirm
    \/ WebGet
    \/ WriteChunk
    \/ FetchEnd
    \/ LaterStages

SpecFetch == FetchInit /\ [][FetchNext]_vars

----------------------------------------------------------------------------
(* Properties of the fetch, checked under SpecFetch *)

\* the GETs download_archive_for_google issued
DownloadGets == SelectSeq(dl.gets, LAMBDA g : g.fn = "download_archive_for_google")

\* the first response's cookies carry a confirmation token
CarriesToken == \E i \in 1..Len(dl.jar) : StartsWith(DownloadWarning, dl.jar[i].key)

Fetched == dl.pc \in {"l236", "done"} /\ dl.error = "None"

\* C14: for Google Drive, when the cookies of the first response carry a
\* confirmation token the GET is reissued with confirm=<token> and the saved
\* file is the second response's body, byte for byte; without a token there is
\* no second GET and the saved file is the first response's body.
C14_ConfirmTokenHandshake ==
    (Fetched /\ dl.provider = GoogleDrive) =>
        IF CarriesToken
        THEN /\ Len(DownloadGets) = 2
             /\ DownloadGets[1].confirm = NoText
             /\ DownloadGets[2].confirm = <<"t">>
             /\ dl.file = Flatten(dl.body2)
        ELSE /\ Len(DownloadGets) = 1
             /\ DownloadGets[1].confirm = NoText
             /\ dl.file = Flatten(dl.body1)

\* a download whose second response differs from the first has been saved
C14_Witness ==
    /\ Fetched
    /\ dl.provider = GoogleDrive
    /\ CarriesToken
    /\ Len(DownloadGets) = 2
    /\ Flatten(dl.body1) # Flatten(dl.body2)
    /\ dl.file = <<"y", "k">>

\* the GETs that the source answers with the archive itself: one with the
\* token, or one without when the source asks for no confirmation
ContentRequests ==
    SelectSeq(dl.gets, LAMBDA g : g.confirm # NoText \/ ~CarriesToken)

\* C18: in an invocation of any provider the archive content is requested at
\* most once; a failed fetch ends the invocation, and no later stage runs after it.
C18_AtMostOneDownload ==
    /\ Len(ContentRequests) <= 1
    /\ dl.error # "None" => (dl.pc = "done" /\ ~dl.later)

====
